---- MODULE Spec2Model ----
(***************************************************************************)
(* Model of bot/exts/backend/sync/_syncers.py: the Syncer base class with  *)
(* its sync() driver, RoleSyncer and UserSyncer, run against an abstract   *)
(* site API (GET/POST/PUT/PATCH/DELETE) and an optional command context.   *)
(***************************************************************************)
EXTENDS Integers, Sequences, FiniteSets, TLC

\* ---------------------------------------------------------------- bounds
MaxRoleId == 2
MaxUserId == 2
MaxPageSize == 2

RoleIds == 1..MaxRoleId
UserIds == 1..MaxUserId

\* ---------------------------------------------------- Python-level values
\* Optional values: Python None and a present value.
None == [some |-> FALSE]
Some(v) == [some |-> TRUE, val |-> v]

\* Sync tasks; only the kinds started by Init ever run.
Procs == {1, 2}

\* bot.api.ResponseCodeError carries a status and the decoded JSON body.
EmptyJson == "{}"
DetailJson == "{'detail': 'x'}"
ResponseCodeError(status, response_json) ==
    [type |-> "ResponseCodeError", status |-> status, response_json |-> response_json]
ResponseCodeErrors ==
    { ResponseCodeError(500, None), ResponseCodeError(500, Some(EmptyJson)),
      ResponseCodeError(500, Some(DetailJson)), ResponseCodeError(404, Some(DetailJson)) }
\* Any exception that is not a ResponseCodeError.
OtherErrors == { [type |-> "OtherError"] }
Failures == ResponseCodeErrors \cup OtherErrors
Ok == [type |-> "ok"]
Outcomes == {Ok} \cup Failures

\* Truthiness of a decoded JSON body, as tested by `e.response_json or ...`.
JsonTruthy(j) == j.some /\ j.val # EmptyJson
\* PageTruthy as `is not None`: page 0 does not end the loop.
PageNotNone(p) == p.some

\* Truthiness of query_params["page"], as tested by `while query_params["page"]`.
PageTruthy(p) == p.some /\ p.val # 0

\* ------------------------------------------------------------- role data
\* _Role namedtuple.
_Role(id, name, colour, permissions, position) ==
    [id |-> id, name |-> name, colour |-> colour,
     permissions |-> permissions, position |-> position]

\* A role object of the guild cache; it has more attributes than _Role keeps.
GuildRole(id, name, colour, permissions, position) ==
    [id |-> id, name |-> name, colour |-> [value |-> colour],
     permissions |-> [value |-> permissions], position |-> position,
     mentionable |-> TRUE]

UniqueIds(S) == \A a \in S : \A b \in S : a.id = b.id => a = b

\* The role of the guild cache with id i, and the stored records of id i:
\* in step with the role, or stale in one field.
LiveRole(i) == GuildRole(i, IF i % 2 = 1 THEN "a" ELSE "b", 255 * i, 8, i)
StoredRoles(i) ==
    LET g == LiveRole(i)
    IN { _Role(i, g.name, g.colour.value, g.permissions.value, g.position),
         _Role(i, "z", g.colour.value, g.permissions.value, g.position),
         _Role(i, g.name, 0, g.permissions.value, g.position),
         _Role(i, g.name, g.colour.value, 0, g.position),
         _Role(i, g.name, g.colour.value, g.permissions.value, g.position + 1) }
LiveRoleChoices == { LiveRole(i) : i \in RoleIds }
DbRoleChoices == UNION { StoredRoles(i) : i \in RoleIds }
LiveRoleSets == { R \in SUBSET LiveRoleChoices : UniqueIds(R) }
DbRoleSets == { R \in SUBSET DbRoleChoices : UniqueIds(R) }

\* _Diff namedtuple; each field holds a collection or None.
_Diff(created, updated, deleted) ==
    [created |-> created, updated |-> updated, deleted |-> deleted]

\* The packing of guild.roles into _Role tuples (lines 89-98).
PackGuildRoles(roles) ==
    { _Role(role.id, role.name, role.colour.value, role.permissions.value, role.position) :
        role \in roles }

\* RoleDiff that does not subtract db_roles: every known role is updated.
RoleDiffUpdateAll(roles, guildRoles) ==
    LET db_roles == roles
        guild_roles == PackGuildRoles(guildRoles)
        guild_role_ids == { role.id : role \in guild_roles }
        api_role_ids == { role.id : role \in db_roles }
        roles_to_create == { role \in guild_roles : role.id \in guild_role_ids \ api_role_ids }
        roles_to_update == guild_roles \ roles_to_create
        roles_to_delete == { role \in db_roles : role.id \in api_role_ids \ guild_role_ids }
    IN _Diff(Some(roles_to_create), Some(roles_to_update), Some(roles_to_delete))

\* RoleDiff that does not subtract roles_to_create from the roles to update.
RoleDiffUpdateKeepsCreated(roles, guildRoles) ==
    LET db_roles == roles
        guild_roles == PackGuildRoles(guildRoles)
        guild_role_ids == { role.id : role \in guild_roles }
        api_role_ids == { role.id : role \in db_roles }
        roles_to_create == { role \in guild_roles : role.id \in guild_role_ids \ api_role_ids }
        roles_to_update == guild_roles \ db_roles
        roles_to_delete == { role \in db_roles : role.id \in api_role_ids \ guild_role_ids }
    IN _Diff(Some(roles_to_create), Some(roles_to_update), Some(roles_to_delete))

\* RoleDiff that takes the roles to update from the database side.
RoleDiffUpdatedFromDb(roles, guildRoles) ==
    LET db_roles == roles
        guild_roles == PackGuildRoles(guildRoles)
        guild_role_ids == { role.id : role \in guild_roles }
        api_role_ids == { role.id : role \in db_roles }
        roles_to_create == { role \in guild_roles : role.id \in guild_role_ids \ api_role_ids }
        roles_to_delete == { role \in db_roles : role.id \in api_role_ids \ guild_role_ids }
        roles_to_update == (db_roles \ guild_roles) \ roles_to_delete
    IN _Diff(Some(roles_to_create), Some(roles_to_update), Some(roles_to_delete))

\* RoleDiff that deletes every stored role that differs from the guild's.
RoleDiffDeleteStale(roles, guildRoles) ==
    LET db_roles == roles
        guild_roles == PackGuildRoles(guildRoles)
        guild_role_ids == { role.id : role \in guild_roles }
        api_role_ids == { role.id : role \in db_roles }
        new_role_ids == guild_role_ids \ api_role_ids
        roles_to_create == { role \in guild_roles : role.id \in new_role_ids }
        roles_to_update == (guild_roles \ db_roles) \ roles_to_create
        roles_to_delete == db_roles \ guild_roles
    IN _Diff(Some(roles_to_create), Some(roles_to_update), Some(roles_to_delete))

\* RoleSyncer._get_diff after the GET returned `roles`.
RoleDiff(roles, guildRoles) ==
    LET db_roles == roles
        guild_roles == PackGuildRoles(guildRoles)
        guild_role_ids == { role.id : role \in guild_roles }
        api_role_ids == { role.id : role \in db_roles }
        new_role_ids == guild_role_ids \ api_role_ids
        deleted_role_ids == api_role_ids \ guild_role_ids
        roles_to_create == { role \in guild_roles : role.id \in new_role_ids }
        roles_to_update == (guild_roles \ db_roles) \ roles_to_create
        roles_to_delete == { role \in db_roles : role.id \in deleted_role_ids }
    IN _Diff(Some(roles_to_create), Some(roles_to_update), Some(roles_to_delete))

\* ------------------------------------------------------------- user data
\* int(member.discriminator): the discriminator is a string of decimal digits.
RECURSIVE ParseInt(_)
ParseInt(digits) ==
    IF digits = <<>> THEN 0
    ELSE 10 * ParseInt(SubSeq(digits, 1, Len(digits) - 1)) + digits[Len(digits)]

Member(id, name, discriminator, roles) ==
    [id |-> id, name |-> name, discriminator |-> discriminator, roles |-> roles]
DbUser(id, name, discriminator, roles, in_guild) ==
    [id |-> id, name |-> name, discriminator |-> discriminator,
     roles |-> roles, in_guild |-> in_guild]

\* The member of the guild cache with id i, and the stored records of id i:
\* in step with the member, or stale in one or several fields.
LiveMember(i) ==
    IF i % 2 = 1 THEN Member(i, "a", <<0, 0, 4, 2>>, <<1, 2>>)
                 ELSE Member(i, "b", <<0, 0, 0, 7>>, <<2>>)
Reversed(s) == [k \in 1..Len(s) |-> s[Len(s) + 1 - k]]
StoredUsers(i) ==
    LET m == LiveMember(i)
        d == ParseInt(m.discriminator)
    IN { DbUser(i, m.name, d, m.roles, TRUE),
         DbUser(i, "z", d + 1, m.roles, TRUE),
         DbUser(i, m.name, d, Reversed(m.roles) \o <<m.roles[1]>>, TRUE),
         DbUser(i, m.name, d, <<3>>, TRUE),
         DbUser(i, m.name, d, m.roles, FALSE) }
LiveMemberChoices == { LiveMember(i) : i \in UserIds }
DbUserChoices == UNION { StoredUsers(i) : i \in UserIds }
LiveMemberSets == { M \in SUBSET LiveMemberChoices : UniqueIds(M) }
DbUserSets == { U \in SUBSET DbUserChoices : UniqueIds(U) }

\* The records of a snapshot in increasing id order.
RECURSIVE InIdOrder(_)
InIdOrder(S) ==
    IF S = {} THEN <<>>
    ELSE LET first == CHOOSE a \in S : \A b \in S : a.id <= b.id
         IN <<first>> \o InIdOrder(S \ {first})

SeqToSet(s) == { s[i] : i \in 1..Len(s) }

\* guild.get_member(id): the member or None.
GetMember(members, id) ==
    IF \E i \in 1..Len(members) : members[i].id = id
    THEN Some(members[CHOOSE i \in 1..Len(members) : members[i].id = id])
    ELSE None

\* ------------------------------------------------------ UserSyncer diff
\* Python dicts are functions from field names to values.
EmptyDict == [x \in {} |-> 0]
SetItem(d, k, v) == [x \in DOMAIN d \cup {k} |-> IF x = k THEN v ELSE d[x]]
DictTruthy(d) == DOMAIN d # {}

\* The closure maybe_update (lines 145-148).
maybe_update(updated_fields, db_user, db_field, guild_value) ==
    IF db_user[db_field] # guild_value
    THEN SetItem(updated_fields, db_field, guild_value)
    ELSE updated_fields

\* UpdatedFields that compares the roles as lists.
UpdatedFieldsRolesAsLists(db_user, members) ==
    LET guild_user == GetMember(members, db_user.id)
    IN IF guild_user.some
       THEN LET gu == guild_user.val
                f1 == maybe_update(EmptyDict, db_user, "name", gu.name)
                f2 == maybe_update(f1, db_user, "discriminator", ParseInt(gu.discriminator))
                f3 == maybe_update(f2, db_user, "in_guild", TRUE)
            IN maybe_update(f3, db_user, "roles", gu.roles)
       ELSE IF db_user.in_guild
            THEN SetItem(EmptyDict, "in_guild", FALSE)
            ELSE EmptyDict

\* UpdatedFields with `else` in place of `elif db_user["in_guild"]`.
UpdatedFieldsAnyLeaver(db_user, members) ==
    LET guild_user == GetMember(members, db_user.id)
    IN IF guild_user.some
       THEN LET gu == guild_user.val
                f1 == maybe_update(EmptyDict, db_user, "name", gu.name)
                f2 == maybe_update(f1, db_user, "discriminator", ParseInt(gu.discriminator))
                f3 == maybe_update(f2, db_user, "in_guild", TRUE)
            IN IF SeqToSet(db_user.roles) # SeqToSet(gu.roles)
               THEN SetItem(f3, "roles", gu.roles)
               ELSE f3
       ELSE SetItem(EmptyDict, "in_guild", FALSE)

\* The fields to update for one record of the database (lines 143-167).
UpdatedFields(db_user, members) ==
    LET guild_user == GetMember(members, db_user.id)
    IN IF guild_user.some
       THEN LET gu == guild_user.val
                f1 == maybe_update(EmptyDict, db_user, "name", gu.name)
                f2 == maybe_update(f1, db_user, "discriminator", ParseInt(gu.discriminator))
                f3 == maybe_update(f2, db_user, "in_guild", TRUE)
                guild_roles == gu.roles
            IN IF SeqToSet(db_user.roles) # SeqToSet(guild_roles)
               THEN SetItem(f3, "roles", guild_roles)
               ELSE f3
       ELSE IF db_user.in_guild
            THEN SetItem(EmptyDict, "in_guild", FALSE)
            ELSE EmptyDict

\* One iteration of the `async for` body (lines 141-171) on the loop state
\* st = [users_to_update, seen_guild_users].
LoopBody(st, db_user, members) ==
    LET guild_user == GetMember(members, db_user.id)
        seen == IF guild_user.some
                THEN st.seen_guild_users \cup {guild_user.val.id}
                ELSE st.seen_guild_users
        updated_fields == UpdatedFields(db_user, members)
    IN [users_to_update |->
            IF DictTruthy(updated_fields)
            THEN Append(st.users_to_update, SetItem(updated_fields, "id", db_user.id))
            ELSE st.users_to_update,
        seen_guild_users |-> seen]

\* The loop body over the records of one page, in page order.
RECURSIVE LoopOverPage(_, _, _)
LoopOverPage(st, results, members) ==
    IF results = <<>> THEN st
    ELSE LoopOverPage(LoopBody(st, Head(results), members), Tail(results), members)

\* The trailing loop over guild.members (lines 173-184).
NewUser(member) ==
    [id |-> member.id, name |-> member.name,
     discriminator |-> ParseInt(member.discriminator),
     roles |-> member.roles, in_guild |-> TRUE]
\* UsersToCreate without the test on seen_guild_users.
UsersToCreateAll(members, seen_guild_users) ==
    [i \in 1..Len(members) |->
        [id |-> members[i].id, name |-> members[i].name,
         discriminator |-> ParseInt(members[i].discriminator),
         roles |-> members[i].roles, in_guild |-> TRUE]]

UsersToCreate(members, seen_guild_users) ==
    LET unseen == SelectSeq(members, LAMBDA m : m.id \notin seen_guild_users)
    IN [i \in 1..Len(unseen) |-> NewUser(unseen[i])]

\* --------------------------------------------------------- the site API
\* Effects of successful calls on the stored roles and users.
ApiPostRole(db, json) == db \cup {json}
ApiPutRole(db, id, json) == { r \in db : r.id # id } \cup {json}
ApiDeleteRole(db, id) == { r \in db : r.id # id }
ApiPostUsers(db, json) == db \cup SeqToSet(json)
PatchUser(u, json) ==
    LET hits == { i \in 1..Len(json) : json[i].id = u.id }
    IN IF hits = {} THEN u
       ELSE LET e == json[CHOOSE i \in hits : TRUE]
            IN [f \in DOMAIN u |-> IF f \in DOMAIN e THEN e[f] ELSE u[f]]
ApiPatchUsers(db, json) == { PatchUser(u, json) : u \in db }

\* The page number _get_users starts from.
FirstPage == 1

\* GET bot/users?page=N: pages of page_size records in id order.
PageExists(db, size, page) ==
    page = 1 \/ (page > 1 /\ (page - 1) * size < Cardinality(db))
PageResults(db, size, page) ==
    LET all == InIdOrder(db)
        hi == IF page * size < Len(all) THEN page * size ELSE Len(all)
    IN SubSeq(all, (page - 1) * size + 1, hi)
HasNextPage(db, size, page) == page * size < Cardinality(db)
\* The end-of-stream values a response may carry as next_page_no.
EndOfStream == {None, Some(0)}
\* The responses GET bot/users?page=N may return.
ApiGetUsers(db, size, page) ==
    { [results |-> PageResults(db, size, page), next_page_no |-> n] :
        n \in IF HasNextPage(db, size, page) THEN {Some(page + 1)} ELSE EndOfStream }

\* ------------------------------------------------------------ the state
VARIABLES
    guild_roles,    \* guild.roles: the role objects of the guild cache
    guild_members,  \* guild.members: the member objects of the guild cache
    db_roles,       \* the roles stored by the site
    db_users,       \* the users stored by the site
    page_size,      \* the page size of bot/users
    run,            \* per task: the locals of its current call of sync()
    last_caller     \* the task whose backend call was issued last (0: none yet)

vars == <<guild_roles, guild_members, db_roles, db_users, page_size, run, last_caller>>

\* A task of syncer `name` that is not inside sync().
NewRun(name) ==
    [syncer |-> name, pc |-> "idle", ctx |-> FALSE, message |-> None, sink |-> <<>>,
     diff |-> None, page |-> None, users_to_update |-> <<>>, seen_guild_users |-> {},
     yielded |-> <<>>, todo |-> None, calls |-> <<>>, content |-> None, raised |-> None,
     prev |-> "other"]

InitRole ==
    /\ guild_roles \in LiveRoleSets
    /\ db_roles \in DbRoleSets
    /\ guild_members = <<>>
    /\ db_users = {}
    /\ page_size = 1
    /\ run = [p \in Procs |-> IF p = 1 THEN NewRun("role") ELSE NewRun("none")]
    /\ last_caller = 0

InitUser ==
    /\ guild_roles = {}
    /\ db_roles = {}
    /\ guild_members \in { InIdOrder(M) : M \in LiveMemberSets }
    /\ db_users \in DbUserSets
    /\ page_size \in 1..MaxPageSize
    /\ run = [p \in Procs |-> IF p = 1 THEN NewRun("user") ELSE NewRun("none")]
    /\ last_caller = 0

Init == InitRole \/ InitUser

\* ------------------------------------------------------- Syncer.sync()
IsWrite(call) == call.verb \in {"POST", "PUT", "PATCH", "DELETE"}
Call(verb, url, arg, outcome, response) ==
    [verb |-> verb, url |-> url, arg |-> arg, outcome |-> outcome, response |-> response]

OkWrites(r) ==
    Cardinality({ i \in 1..Len(r.calls) : IsWrite(r.calls[i]) /\ r.calls[i].outcome = Ok })
\* How a call of sync() ended: "applied" (complete after some write),
\* "complete" (without any write), "partial" (failed after some write had
\* succeeded) or "other".
OutcomeOf(r) ==
    IF r.pc = "raised" \/ ~r.content.some THEN "other"
    ELSE IF r.content.val.outcome = "complete"
    THEN (IF OkWrites(r) > 0 THEN "applied" ELSE "complete")
    ELSE IF OkWrites(r) > 0 THEN "partial"
    ELSE "other"

\* The stored records of the kind a syncer works on.
DbOf(name) == IF name = "role" THEN db_roles ELSE db_users

\* Lines 48-53: log, send the start message when ctx is given, enter _get_diff.
SyncStart(p, ctx) ==
    LET r == run[p]
    IN /\ r.syncer # "none"
       /\ r.pc \in {"idle", "done", "raised"}
       /\ run' = [run EXCEPT ![p] =
                    [NewRun(r.syncer) EXCEPT
                        !.pc = "get_diff",
                        !.ctx = ctx,
                        !.message = IF ctx THEN Some("message") ELSE None,
                        !.sink = IF ctx
                                 THEN <<[op |-> "send", text |-> [outcome |-> "start", name |-> r.syncer]]>>
                                 ELSE <<>>,
                        !.page = IF r.syncer = "user" THEN Some(FirstPage) ELSE None,
                        !.prev = OutcomeOf(r)]]
       /\ UNCHANGED <<guild_roles, guild_members, db_roles, db_users, page_size>>
       /\ UNCHANGED last_caller

\* An exception leaves sync(): raised in _get_diff (line 54, outside the try)
\* or raised in _sync and not a ResponseCodeError.
Propagate(r, call, e) ==
    [r EXCEPT !.calls = Append(@, call), !.pc = "raised", !.raised = Some(e)]

\* Lines 58-63: the except clause.
FailureContent(name, e) ==
    [outcome |-> "failed", name |-> name, status |-> e.status,
     body |-> IF JsonTruthy(e.response_json)
              THEN e.response_json.val
              ELSE "See log output for details"]

\* len(val) of a partition: a set for roles, a list for users.
SizeOf(name, val) == IF name = "role" THEN Cardinality(val) ELSE Len(val)

\* SuccessContent with `if val` in place of `if val is not None`.
SuccessContentIfVal(name, diff) ==
    LET fields == SelectSeq(<<"created", "updated", "deleted">>,
                            LAMBDA f : diff[f].some /\ SizeOf(name, diff[f].val) > 0)
    IN [outcome |-> "complete", name |-> name,
        results |-> [i \in 1..Len(fields) |->
                        [name |-> fields[i], len |-> SizeOf(name, diff[fields[i]].val)]]]

\* Lines 64-70: the else clause.
SuccessContent(name, diff) ==
    LET fields == SelectSeq(<<"created", "updated", "deleted">>, LAMBDA f : diff[f].some)
    IN [outcome |-> "complete", name |-> name,
        results |-> [i \in 1..Len(fields) |->
                        [name |-> fields[i], len |-> SizeOf(name, diff[fields[i]].val)]]]

\* AfterWrite with an except clause that logs the error and lets _sync go on.
AfterWriteKeepGoing(r, call, done) ==
    IF call.outcome = Ok
    THEN [done EXCEPT !.calls = Append(@, call)]
    ELSE IF call.outcome.type = "ResponseCodeError"
    THEN [done EXCEPT !.calls = Append(@, call),
                      !.content = Some(FailureContent(r.syncer, call.outcome))]
    ELSE Propagate(r, call, call.outcome)

\* AfterWrite with an except clause that returns without reaching line 72.
AfterWriteReturnOnError(r, call, done) ==
    IF call.outcome = Ok
    THEN [done EXCEPT !.calls = Append(@, call)]
    ELSE IF call.outcome.type = "ResponseCodeError"
    THEN [r EXCEPT !.calls = Append(@, call),
                   !.content = Some(FailureContent(r.syncer, call.outcome)),
                   !.pc = "done"]
    ELSE Propagate(r, call, call.outcome)

\* AfterWrite with `except Exception` in place of `except ResponseCodeError`.
AfterWriteCatchAll(r, call, done) ==
    IF call.outcome = Ok
    THEN [done EXCEPT !.calls = Append(@, call)]
    ELSE [r EXCEPT !.calls = Append(@, call),
                   !.content = Some([outcome |-> "failed", name |-> r.syncer,
                                     status |-> 0, body |-> "See log output for details"]),
                   !.pc = "edit"]

\* What a call inside the try block does to the task, given the task state
\* `done` that a successful call leads to.
AfterWrite(r, call, done) ==
    IF call.outcome = Ok
    THEN [done EXCEPT !.calls = Append(@, call)]
    ELSE IF call.outcome.type = "ResponseCodeError"
    THEN [r EXCEPT !.calls = Append(@, call),
                   !.content = Some(FailureContent(r.syncer, call.outcome)),
                   !.pc = "edit"]
    ELSE Propagate(r, call, call.outcome)

\* ---------------------------------------------------------- RoleSyncer
\* Lines 81-111: GET bot/roles, then the diff against guild.roles.
RoleGetDiff(p, o) ==
    LET r == run[p]
        call == Call("GET", "bot/roles", None, o, IF o = Ok THEN Some(db_roles) ELSE None)
        diff == RoleDiff(db_roles, guild_roles)
    IN /\ r.syncer = "role"
       /\ r.pc = "get_diff"
       /\ run' = [run EXCEPT ![p] =
                    IF o = Ok
                    THEN [r EXCEPT !.calls = Append(@, call),
                                   !.diff = Some(diff),
                                   !.todo = Some([created |-> diff.created.val,
                                                  updated |-> diff.updated.val,
                                                  deleted |-> diff.deleted.val]),
                                   !.pc = "sync"]
                    ELSE Propagate(r, call, o)]
       /\ UNCHANGED <<guild_roles, guild_members, db_roles, db_users, page_size>>
       /\ last_caller' = p

\* Lines 116-117: one iteration of the loop over diff.created.
RolePost(p, role, o) ==
    LET r == run[p]
        call == Call("POST", "bot/roles", role, o, None)
    IN /\ r.syncer = "role"
       /\ r.pc = "sync"
       /\ role \in r.todo.val.created
       /\ run' = [run EXCEPT ![p] =
                    AfterWrite(r, call, [r EXCEPT !.todo.val.created = @ \ {role}])]
       /\ db_roles' = IF o = Ok THEN ApiPostRole(db_roles, role) ELSE db_roles
       /\ UNCHANGED <<guild_roles, guild_members, db_users, page_size>>
       /\ last_caller' = p

\* RolePut that makes one PUT for the whole of diff.updated.
RolePutOnce(p, role, o) ==
    LET r == run[p]
        call == Call("PUT", <<"bot/roles", role.id>>, role, o, None)
    IN /\ r.syncer = "role"
       /\ r.pc = "sync"
       /\ r.todo.val.created = {}
       /\ role \in r.todo.val.updated
       /\ run' = [run EXCEPT ![p] =
                    AfterWrite(r, call, [r EXCEPT !.todo.val.updated = {}])]
       /\ db_roles' = IF o = Ok THEN ApiPutRole(db_roles, role.id, role) ELSE db_roles
       /\ UNCHANGED <<guild_roles, guild_members, db_users, page_size>>
       /\ last_caller' = p

\* RolePut in a _sync that does not wait for the loop over diff.created.
RolePutAnyTime(p, role, o) ==
    LET r == run[p]
        call == Call("PUT", <<"bot/roles", role.id>>, role, o, None)
    IN /\ r.syncer = "role"
       /\ r.pc = "sync"
       /\ role \in r.todo.val.updated
       /\ run' = [run EXCEPT ![p] =
                    AfterWrite(r, call, [r EXCEPT !.todo.val.updated = @ \ {role}])]
       /\ db_roles' = IF o = Ok THEN ApiPutRole(db_roles, role.id, role) ELSE db_roles
       /\ UNCHANGED <<guild_roles, guild_members, db_users, page_size>>
       /\ last_caller' = p

\* Lines 120-121: one iteration of the loop over diff.updated.
RolePut(p, role, o) ==
    LET r == run[p]
        call == Call("PUT", <<"bot/roles", role.id>>, role, o, None)
    IN /\ r.syncer = "role"
       /\ r.pc = "sync"
       /\ r.todo.val.created = {}
       /\ role \in r.todo.val.updated
       /\ run' = [run EXCEPT ![p] =
                    AfterWrite(r, call, [r EXCEPT !.todo.val.updated = @ \ {role}])]
       /\ db_roles' = IF o = Ok THEN ApiPutRole(db_roles, role.id, role) ELSE db_roles
       /\ UNCHANGED <<guild_roles, guild_members, db_users, page_size>>
       /\ last_caller' = p

\* RoleDelete against a backend that also strips the deleted role from the
\* stored users.
RoleDeleteCascade(p, role, o) ==
    LET r == run[p]
        call == Call("DELETE", <<"bot/roles", role.id>>, None, o, None)
    IN /\ r.syncer = "role"
       /\ r.pc = "sync"
       /\ r.todo.val.created = {}
       /\ r.todo.val.updated = {}
       /\ role \in r.todo.val.deleted
       /\ run' = [run EXCEPT ![p] =
                    AfterWrite(r, call, [r EXCEPT !.todo.val.deleted = @ \ {role}])]
       /\ db_roles' = IF o = Ok THEN ApiDeleteRole(db_roles, role.id) ELSE db_roles
       /\ db_users' = IF o = Ok
                      THEN { [u EXCEPT !.roles = SelectSeq(@, LAMBDA x : x # role.id)] :
                                u \in db_users }
                      ELSE db_users
       /\ UNCHANGED <<guild_roles, guild_members, page_size>>
       /\ last_caller' = p

\* Lines 124-125: one iteration of the loop over diff.deleted.
RoleDelete(p, role, o) ==
    LET r == run[p]
        call == Call("DELETE", <<"bot/roles", role.id>>, None, o, None)
    IN /\ r.syncer = "role"
       /\ r.pc = "sync"
       /\ r.todo.val.created = {}
       /\ r.todo.val.updated = {}
       /\ role \in r.todo.val.deleted
       /\ run' = [run EXCEPT ![p] =
                    AfterWrite(r, call, [r EXCEPT !.todo.val.deleted = @ \ {role}])]
       /\ db_roles' = IF o = Ok THEN ApiDeleteRole(db_roles, role.id) ELSE db_roles
       /\ UNCHANGED <<guild_roles, guild_members, db_users, page_size>>
       /\ last_caller' = p

\* ---------------------------------------------------------- UserSyncer
\* Lines 193-194: one GET of _get_users, awaited by the `async for` of _get_diff.
\* The task after GET bot/users?page=N returned `res` (lines 195-198 and the
\* loop body of _get_diff on each yielded record; lines 173-186 once the
\* generator is exhausted, which also ends the life of query_params).
AfterPage(r, call, res) ==
    LET st == LoopOverPage([users_to_update |-> r.users_to_update,
                            seen_guild_users |-> r.seen_guild_users],
                           res.results, guild_members)
        next == res.next_page_no
        diff == _Diff(Some(UsersToCreate(guild_members, st.seen_guild_users)),
                      Some(st.users_to_update), None)
    IN [r EXCEPT !.calls = Append(@, call),
                 !.yielded = @ \o res.results,
                 !.users_to_update = st.users_to_update,
                 !.seen_guild_users = st.seen_guild_users,
                 !.page = IF PageTruthy(next) THEN next ELSE None,
                 !.diff = IF PageTruthy(next) THEN None ELSE Some(diff),
                 !.todo = IF PageTruthy(next) THEN None
                          ELSE Some([created |-> diff.created.val,
                                     updated |-> diff.updated.val]),
                 !.pc = IF PageTruthy(next) THEN "get_diff" ELSE "sync"]

\* UserGetPage with a generator that ends the stream when a GET fails.
UserGetPageEndOnError(p, o) ==
    LET r == run[p]
        end == [results |-> <<>>, next_page_no |-> None]
    IN /\ r.syncer = "user"
       /\ r.pc = "get_diff"
       /\ PageTruthy(r.page)
       /\ IF o = Ok
          THEN /\ PageExists(db_users, page_size, r.page.val)
               /\ \E res \in ApiGetUsers(db_users, page_size, r.page.val) :
                     run' = [run EXCEPT ![p] =
                               AfterPage(r, Call("GET", "bot/users", [page |-> r.page.val],
                                                 Ok, Some(res)), res)]
          ELSE run' = [run EXCEPT ![p] =
                         AfterPage(r, Call("GET", "bot/users", [page |-> r.page.val], o, None), end)]
       /\ UNCHANGED <<guild_roles, guild_members, db_roles, db_users, page_size>>
       /\ last_caller' = p

UserGetPage(p, o) ==
    LET r == run[p]
    IN /\ r.syncer = "user"
       /\ r.pc = "get_diff"
       /\ PageTruthy(r.page)
       /\ IF o = Ok
          THEN /\ PageExists(db_users, page_size, r.page.val)
               /\ \E res \in ApiGetUsers(db_users, page_size, r.page.val) :
                     run' = [run EXCEPT ![p] =
                               AfterPage(r, Call("GET", "bot/users", [page |-> r.page.val],
                                                 Ok, Some(res)), res)]
          ELSE run' = [run EXCEPT ![p] =
                         Propagate(r, Call("GET", "bot/users", [page |-> r.page.val], o, None), o)]
       /\ UNCHANGED <<guild_roles, guild_members, db_roles, db_users, page_size>>
       /\ last_caller' = p

\* Lines 203-204.
UserPost(p, o) ==
    LET r == run[p]
        call == Call("POST", "bot/users", r.diff.val.created.val, o, None)
    IN /\ r.syncer = "user"
       /\ r.pc = "sync"
       /\ r.todo.val.created # <<>>
       /\ run' = [run EXCEPT ![p] =
                    AfterWrite(r, call, [r EXCEPT !.todo.val.created = <<>>])]
       /\ db_users' = IF o = Ok THEN ApiPostUsers(db_users, call.arg) ELSE db_users
       /\ UNCHANGED <<guild_roles, guild_members, db_roles, page_size>>
       /\ last_caller' = p

\* Lines 207-208.
UserPatch(p, o) ==
    LET r == run[p]
        call == Call("PATCH", "bot/users/bulk_patch", r.diff.val.updated.val, o, None)
    IN /\ r.syncer = "user"
       /\ r.pc = "sync"
       /\ r.todo.val.created = <<>>
       /\ r.todo.val.updated # <<>>
       /\ run' = [run EXCEPT ![p] =
                    AfterWrite(r, call, [r EXCEPT !.todo.val.updated = <<>>])]
       /\ db_users' = IF o = Ok THEN ApiPatchUsers(db_users, call.arg) ELSE db_users
       /\ UNCHANGED <<guild_roles, guild_members, db_roles, page_size>>
       /\ last_caller' = p

\* ------------------------------------------------- the end of sync()
\* No call of _sync is left to make.
NothingToDo(r) ==
    IF r.syncer = "role"
    THEN r.todo.val.created = {} /\ r.todo.val.updated = {} /\ r.todo.val.deleted = {}
    ELSE r.todo.val.created = <<>> /\ r.todo.val.updated = <<>>

\* Lines 64-70: _sync returned without an exception.
SyncComplete(p) ==
    LET r == run[p]
    IN /\ r.pc = "sync"
       /\ NothingToDo(r)
       /\ run' = [run EXCEPT ![p] =
                    [r EXCEPT !.content = Some(SuccessContent(r.syncer, r.diff.val)),
                              !.pc = "edit"]]
       /\ UNCHANGED <<guild_roles, guild_members, db_roles, db_users, page_size>>
       /\ UNCHANGED last_caller

\* Lines 72-73: edit the start message when there is one, then return.
SyncEdit(p) ==
    LET r == run[p]
    IN /\ r.pc = "edit"
       /\ run' = [run EXCEPT ![p] =
                    [r EXCEPT !.sink = IF r.message.some
                                       THEN Append(@, [op |-> "edit", text |-> r.content.val])
                                       ELSE @,
                              !.pc = "done"]]
       /\ UNCHANGED <<guild_roles, guild_members, db_roles, db_users, page_size>>
       /\ UNCHANGED last_caller

Next ==
    \/ \E p \in Procs, ctx \in BOOLEAN : SyncStart(p, ctx)
    \/ \E p \in Procs, o \in Outcomes : RoleGetDiff(p, o)
    \/ \E p \in Procs, role \in DbRoleChoices \cup PackGuildRoles(LiveRoleChoices), o \in Outcomes :
          RolePost(p, role, o)
    \/ \E p \in Procs, role \in DbRoleChoices \cup PackGuildRoles(LiveRoleChoices), o \in Outcomes :
          RolePut(p, role, o)
    \/ \E p \in Procs, role \in DbRoleChoices \cup PackGuildRoles(LiveRoleChoices), o \in Outcomes :
          RoleDelete(p, role, o)
    \/ \E p \in Procs, o \in Outcomes : UserGetPage(p, o)
    \/ \E p \in Procs, o \in Outcomes : UserPost(p, o)
    \/ \E p \in Procs, o \in Outcomes : UserPatch(p, o)
    \/ \E p \in Procs : SyncComplete(p)
    \/ \E p \in Procs : SyncEdit(p)

Spec == Init /\ [][Next]_vars

\* ------------------------------------------------- two concurrent tasks
\* sync() is a coroutine: two calls of it may be in progress at once, each
\* suspended at an await.  The guild has role 1 and member 1; the backend
\* stores nothing, or a stale record of id 1 and a record of id 2.
TwoDbRoleSets ==
    { {}, { b \in StoredRoles(1) : b.name = "z" }
            \cup { b \in StoredRoles(2) : b.name = "b" /\ b.colour = 0 } }
TwoDbUserSets ==
    { {}, { u \in StoredUsers(1) : u.name = "z" }
            \cup { u \in StoredUsers(2) : u.name = "b" /\ u.roles = <<2>> /\ u.in_guild } }

\* Two RoleSyncer.sync calls on the same guild.
InitTwoRoles ==
    /\ guild_roles = { LiveRole(1) }
    /\ db_roles \in TwoDbRoleSets
    /\ guild_members = <<>>
    /\ db_users = {}
    /\ page_size = 1
    /\ run = [p \in Procs |-> NewRun("role")]
    /\ last_caller = 0

\* Two UserSyncer.sync calls on the same guild.
InitTwoUsers ==
    /\ guild_roles = {}
    /\ db_roles = {}
    /\ guild_members = << LiveMember(1) >>
    /\ db_users \in TwoDbUserSets
    /\ page_size = 1
    /\ run = [p \in Procs |-> NewRun("user")]
    /\ last_caller = 0

\* A RoleSyncer.sync call and a UserSyncer.sync call on the same guild.
InitRoleAndUser ==
    /\ guild_roles = { LiveRole(1) }
    /\ db_roles \in TwoDbRoleSets
    /\ guild_members = << LiveMember(1) >>
    /\ db_users \in TwoDbUserSets
    /\ page_size = 1
    /\ run = [p \in Procs |-> IF p = 1 THEN NewRun("role") ELSE NewRun("user")]
    /\ last_caller = 0

InitTwo == InitTwoRoles \/ InitTwoUsers \/ InitRoleAndUser

SpecTwo == InitTwo /\ [][Next]_vars

\* ================================================================ claims
Returned(r) == r.pc \in {"edit", "done"}
FallbackText == "See log output for details"
\* The write calls _sync has not made yet.
PendingCalls(r) ==
    IF ~r.todo.some THEN 0
    ELSE IF r.syncer = "role"
    THEN Cardinality(r.todo.val.created) + Cardinality(r.todo.val.updated)
            + Cardinality(r.todo.val.deleted)
    ELSE (IF r.todo.val.created # <<>> THEN 1 ELSE 0)
            + (IF r.todo.val.updated # <<>> THEN 1 ELSE 0)
FailedWriteAt(r, i) ==
    IsWrite(r.calls[i]) /\ r.calls[i].outcome.type = "ResponseCodeError"
HasEdit(r) == \E k \in 1..Len(r.sink) : r.sink[k].op = "edit"

\* C1 (as amended): a write call that raises ResponseCodeError is the last
\* call of its run, sync() returns normally, and the outcome is Failed with a
\* message holding the status and the response body, or the pointer to the
\* logs when the body is absent or empty.
C1_WriteFailureReported ==
    \A p \in Procs : \A i \in 1..Len(run[p].calls) :
        FailedWriteAt(run[p], i) =>
            LET r == run[p]
                e == r.calls[i].outcome
            IN /\ i = Len(r.calls)
               /\ Returned(r)
               /\ ~r.raised.some
               /\ r.content.some
               /\ r.content.val.outcome = "failed"
               /\ r.content.val.status = e.status
               /\ r.content.val.body =
                    IF e.response_json.some /\ e.response_json.val # EmptyJson
                    THEN e.response_json.val
                    ELSE FallbackText

\* C1 as stated: the message holds the response body whenever there is one.
C1_BodyEmbeddedWhenPresent ==
    \A p \in Procs : \A i \in 1..Len(run[p].calls) :
        FailedWriteAt(run[p], i) =>
            LET r == run[p]
                e == r.calls[i].outcome
            IN /\ i = Len(r.calls)
               /\ Returned(r)
               /\ r.content.some
               /\ r.content.val.outcome = "failed"
               /\ r.content.val.status = e.status
               /\ r.content.val.body =
                    IF e.response_json.some THEN e.response_json.val ELSE FallbackText

\* A run that returned after a write call failed with an empty body while
\* another call was still to be made, and edited the start message.
C1_Witness ==
    \E p \in Procs :
        LET r == run[p]
        IN /\ r.pc = "done"
           /\ Len(r.calls) >= 2
           /\ FailedWriteAt(r, Len(r.calls))
           /\ r.calls[Len(r.calls)].outcome.response_json = Some(EmptyJson)
           /\ PendingCalls(r) >= 2
           /\ HasEdit(r)

\* C2: a ResponseCodeError raised by a read call never leaves sync(); it is
\* turned into a Failed outcome.
C2_ReadFailureReported ==
    \A p \in Procs : \A i \in 1..Len(run[p].calls) :
        (run[p].calls[i].verb = "GET" /\ run[p].calls[i].outcome.type = "ResponseCodeError")
            => /\ run[p].pc # "raised"
               /\ run[p].content.some
               /\ run[p].content.val.outcome = "failed"

\* C3: an exception other than ResponseCodeError raised by a backend call
\* leaves sync(); the call is the last of the run and the start message is
\* not edited.
C3_OtherErrorPropagates ==
    \A p \in Procs : \A i \in 1..Len(run[p].calls) :
        run[p].calls[i].outcome.type = "OtherError" =>
            LET r == run[p]
            IN /\ i = Len(r.calls)
               /\ r.pc = "raised"
               /\ r.raised = Some(r.calls[i].outcome)
               /\ ~r.content.some
               /\ ~HasEdit(r)

\* A run with a start message whose write call raised another error, with a
\* further call still to make.
C3_Witness ==
    \E p \in Procs :
        LET r == run[p]
        IN /\ r.pc = "raised"
           /\ r.message.some
           /\ Len(r.calls) >= 2
           /\ IsWrite(r.calls[Len(r.calls)])
           /\ r.calls[Len(r.calls)].outcome.type = "OtherError"
           /\ PendingCalls(r) >= 2

\* C4: when a page GET of the user fetch fails, on any page, the run issues
\* no write call, whatever update entries earlier pages had produced.
C4_NoWriteAfterFailedPage ==
    \A p \in Procs : \A i \in 1..Len(run[p].calls) :
        (run[p].syncer = "user" /\ run[p].calls[i].verb = "GET"
            /\ run[p].calls[i].outcome # Ok)
            => /\ i = Len(run[p].calls)
               /\ \A k \in 1..Len(run[p].calls) : ~IsWrite(run[p].calls[k])
               /\ ~run[p].diff.some

\* The GET of page 2 failed after page 1 had produced an update entry.
C4_Witness ==
    \E p \in Procs :
        LET r == run[p]
        IN /\ r.syncer = "user"
           /\ Len(r.calls) = 2
           /\ r.calls[2].verb = "GET"
           /\ r.calls[2].arg.page = 2
           /\ r.calls[2].outcome # Ok
           /\ r.users_to_update # <<>>
           /\ r.pc = "raised"

\* The effect of every successful write call of the run is in the backend.
EffectsStay(r) ==
    \A i \in 1..Len(r.calls) :
        LET c == r.calls[i]
        IN (IsWrite(c) /\ c.outcome = Ok) =>
            IF c.verb = "DELETE" THEN \A b \in db_roles : b.id # c.url[2]
            ELSE IF c.verb \in {"PUT", "POST"} /\ r.syncer = "role" THEN c.arg \in db_roles
            ELSE IF c.verb = "POST" THEN \A k \in 1..Len(c.arg) : c.arg[k] \in db_users
            ELSE \A k \in 1..Len(c.arg) :
                    \E u \in db_users :
                        /\ u.id = c.arg[k].id
                        /\ \A f \in DOMAIN c.arg[k] : u[f] = c.arg[k][f]

\* The backend snapshot equals the live snapshot.
RolesMatchLive ==
    db_roles = { [id |-> g.id, name |-> g.name, colour |-> g.colour.value,
                  permissions |-> g.permissions.value, position |-> g.position] :
                    g \in guild_roles }
IsMember(id) == \E k \in 1..Len(guild_members) : guild_members[k].id = id
UsersMatchLive ==
    /\ \A k \in 1..Len(guild_members) :
          LET m == guild_members[k]
          IN \E u \in db_users :
                /\ u.id = m.id
                /\ u.name = m.name
                /\ u.discriminator = ParseInt(m.discriminator)
                /\ SeqToSet(u.roles) = SeqToSet(m.roles)
                /\ u.in_guild
    /\ \A u \in db_users : ~IsMember(u.id) => ~u.in_guild
    /\ UniqueIds(db_users)

\* C5: when a write call fails, the effects of the write calls before it stay
\* on the backend and no further (rollback) call is issued; a later run of the
\* same kind on the same live snapshot whose calls all succeed leaves the
\* backend snapshot equal to the live snapshot.
C5_PartialApplicationConverges ==
    \A p \in Procs :
        LET r == run[p]
        IN /\ (Returned(r) /\ r.content.val.outcome = "failed") =>
                /\ EffectsStay(r)
                /\ r.calls[Len(r.calls)].outcome # Ok
                /\ \A i \in 1..(Len(r.calls) - 1) : r.calls[i].outcome = Ok
           /\ (Returned(r) /\ r.content.val.outcome = "complete" /\ r.prev = "partial") =>
                IF r.syncer = "role" THEN RolesMatchLive ELSE UsersMatchLive

\* A run that completed with at least one write, right after a run of the same
\* task that had failed after a successful write.
C5_Witness ==
    \E p \in Procs :
        /\ run[p].pc = "done"
        /\ run[p].content.val.outcome = "complete"
        /\ run[p].prev = "partial"
        /\ OkWrites(run[p]) >= 1

\* C6: the diff computed by the run that follows a run whose calls all
\* succeeded, from the same live snapshot, has empty created and updated
\* partitions, and an empty (Role) or absent (User) deleted partition.
C6_SecondDiffEmpty ==
    \A p \in Procs :
        (run[p].prev \in {"applied", "complete"} /\ run[p].diff.some) =>
            run[p].diff.val =
                IF run[p].syncer = "role"
                THEN [created |-> Some({}), updated |-> Some({}), deleted |-> Some({})]
                ELSE [created |-> Some(<<>>), updated |-> Some(<<>>), deleted |-> None]

\* The diff of the run after a run that completed with at least two writes.
C6_Witness ==
    \E p \in Procs :
        /\ run[p].prev = "applied"
        /\ run[p].diff.some
        /\ run[p].pc = "done"
        /\ Cardinality(DbOf(run[p].syncer)) >= 2

\* The ids of a partition of a diff: a set of roles or a list of users.
IdsOf(name, part) ==
    IF ~part.some THEN {}
    ELSE IF name = "role" THEN { x.id : x \in part.val }
    ELSE { part.val[k].id : k \in 1..Len(part.val) }

\* C7: in every diff, no id occurs in more than one of created, updated and
\* deleted.
C7_PartitionsDisjoint ==
    \A p \in Procs :
        run[p].diff.some =>
            LET d == run[p].diff.val
                c == IdsOf(run[p].syncer, d.created)
                u == IdsOf(run[p].syncer, d.updated)
                x == IdsOf(run[p].syncer, d.deleted)
            IN c \cap u = {} /\ c \cap x = {} /\ u \cap x = {}

\* A Role diff with a role to create and a role to delete.
C7_Witness ==
    \E p \in Procs :
        /\ run[p].syncer = "role"
        /\ run[p].diff.some
        /\ run[p].diff.val.created.val # {}
        /\ run[p].diff.val.deleted.val # {}

\* The snapshots are still the ones the diff of the run was computed from.
FreshDiff(r) == r.diff.some /\ r.pc = "sync" /\ OkWrites(r) = 0

LiveRoles ==
    { [id |-> g.id, name |-> g.name, colour |-> g.colour.value,
       permissions |-> g.permissions.value, position |-> g.position] : g \in guild_roles }

\* C8: the updated partition of the Role diff is the set of live roles whose
\* id is in the backend with another name, colour, permissions or position,
\* with the live values; a live role equal to its backend record is in no
\* partition.
C8_RoleUpdatedExact ==
    \A p \in Procs :
        (run[p].syncer = "role" /\ FreshDiff(run[p])) =>
            LET d == run[p].diff.val
            IN /\ d.updated.val =
                    { l \in LiveRoles :
                        \E b \in db_roles :
                            /\ b.id = l.id
                            /\ \/ b.name # l.name
                               \/ b.colour # l.colour
                               \/ b.permissions # l.permissions
                               \/ b.position # l.position }
               /\ \A l \in LiveRoles :
                    l \in db_roles =>
                        l \notin (d.created.val \cup d.updated.val \cup d.deleted.val)

\* A Role diff with a role to update next to a role that is in step.
C8_Witness ==
    \E p \in Procs :
        /\ run[p].syncer = "role"
        /\ FreshDiff(run[p])
        /\ run[p].diff.val.updated.val # {}
        /\ LiveRoles \cap db_roles # {}

\* The records of the responses of the first n calls, in call order.
RECURSIVE ResultsUpTo(_, _)
ResultsUpTo(calls, n) ==
    IF n = 0 THEN <<>>
    ELSE ResultsUpTo(calls, n - 1)
            \o (IF calls[n].verb = "GET" /\ calls[n].outcome = Ok
                THEN calls[n].response.val.results ELSE <<>>)
EndsStream(next) == next = None \/ next = Some(0)

\* C9: the user fetch starts at page 1, requests each page once, asks next for
\* the next_page_no of the previous response, yields the records of the pages
\* once each in page order and in-page order, and stops without another GET
\* at the first response whose next_page_no is None or 0.
C9_Pagination ==
    \A p \in Procs :
        run[p].syncer = "user" =>
            LET r == run[p]
                gets == { i \in 1..Len(r.calls) : r.calls[i].verb = "GET" }
            IN /\ \A i \in gets :
                    /\ i = 1 => r.calls[i].arg.page = 1
                    /\ i > 1 =>
                        /\ i - 1 \in gets
                        /\ r.calls[i - 1].outcome = Ok
                        /\ ~EndsStream(r.calls[i - 1].response.val.next_page_no)
                        /\ r.calls[i].arg.page = r.calls[i - 1].response.val.next_page_no.val
                    /\ \A j \in gets : j # i => r.calls[j].arg.page # r.calls[i].arg.page
               /\ r.yielded = ResultsUpTo(r.calls, Len(r.calls))
               /\ r.pc = "get_diff" =>
                    \A i \in gets : ~EndsStream(r.calls[i].response.val.next_page_no)
               /\ FreshDiff(r) => r.yielded = InIdOrder(db_users)

\* A fetch of two pages that ended on a next_page_no of 0.
C9_Witness ==
    \E p \in Procs :
        LET r == run[p]
        IN /\ r.syncer = "user"
           /\ FreshDiff(r)
           /\ Len(r.calls) = 2
           /\ r.calls[2].arg.page = 2
           /\ r.calls[2].response.val.next_page_no = Some(0)
           /\ Len(r.yielded) = 2

\* C10: a backend user without a live member has an update entry exactly when
\* its in_guild is true, and the entry is the id with in_guild=false and no
\* other field; a record with in_guild=false has no entry.
C10_LeaveDetection ==
    \A p \in Procs :
        (run[p].syncer = "user" /\ FreshDiff(run[p])) =>
            LET updated == run[p].diff.val.updated.val
            IN \A u \in db_users :
                ~IsMember(u.id) =>
                    LET entries == { k \in 1..Len(updated) : updated[k].id = u.id }
                    IN IF u.in_guild
                       THEN /\ Cardinality(entries) = 1
                            /\ \A k \in entries :
                                  /\ DOMAIN updated[k] = {"id", "in_guild"}
                                  /\ updated[k].in_guild = FALSE
                       ELSE entries = {}

\* A User diff from a backend with one user who has left since the last run
\* and one already marked as gone.
C10_Witness ==
    \E p \in Procs :
        /\ run[p].syncer = "user"
        /\ FreshDiff(run[p])
        /\ \E u \in db_users : ~IsMember(u.id) /\ u.in_guild
        /\ \E u \in db_users : ~IsMember(u.id) /\ ~u.in_guild

\* The entries of a list of dicts that carry the id.
EntriesOf(list, id) == { k \in 1..Len(list) : list[k].id = id }

\* C11: the created partition of the User diff holds exactly one full record
\* (id, name, discriminator, roles, in_guild=true) for each live member whose
\* id was on no backend page, and none for the other members.
C11_JoinDetection ==
    \A p \in Procs :
        (run[p].syncer = "user" /\ FreshDiff(run[p])) =>
            LET created == run[p].diff.val.created.val
            IN /\ \A k \in 1..Len(guild_members) :
                    LET m == guild_members[k]
                        entries == EntriesOf(created, m.id)
                    IN IF \E j \in 1..Len(run[p].yielded) : run[p].yielded[j].id = m.id
                       THEN entries = {}
                       ELSE /\ Cardinality(entries) = 1
                            /\ \A e \in entries :
                                  /\ DOMAIN created[e] =
                                        {"id", "name", "discriminator", "roles", "in_guild"}
                                  /\ created[e].name = m.name
                                  /\ created[e].discriminator = ParseInt(m.discriminator)
                                  /\ created[e].roles = m.roles
                                  /\ created[e].in_guild = TRUE
               /\ \A e \in 1..Len(created) : IsMember(created[e].id)

\* A User diff with a member to create next to a member the backend knows.
C11_Witness ==
    \E p \in Procs :
        /\ run[p].syncer = "user"
        /\ FreshDiff(run[p])
        /\ Len(run[p].diff.val.created.val) = 1
        /\ Len(guild_members) = 2
        /\ db_users # {}

\* The fields of a backend record that differ from its live member.
Mismatches(u, m) ==
    (IF u.name # m.name THEN {"name"} ELSE {})
        \cup (IF u.discriminator # ParseInt(m.discriminator) THEN {"discriminator"} ELSE {})
        \cup (IF u.in_guild # TRUE THEN {"in_guild"} ELSE {})
        \cup (IF { u.roles[k] : k \in 1..Len(u.roles) } # { m.roles[k] : k \in 1..Len(m.roles) }
              THEN {"roles"} ELSE {})
LiveValue(m, f) ==
    IF f = "name" THEN m.name
    ELSE IF f = "discriminator" THEN ParseInt(m.discriminator)
    ELSE IF f = "in_guild" THEN TRUE
    ELSE m.roles

\* C12: a backend record with a live member has an update entry exactly when
\* name, discriminator, in_guild or roles (compared as sets) mismatch; the
\* entry holds the id and the mismatching fields with their live values only.
C12_FieldUpdates ==
    \A p \in Procs :
        (run[p].syncer = "user" /\ FreshDiff(run[p])) =>
            LET updated == run[p].diff.val.updated.val
            IN \A u \in SeqToSet(run[p].yielded) : \A k \in 1..Len(guild_members) :
                guild_members[k].id = u.id =>
                    LET m == guild_members[k]
                        entries == EntriesOf(updated, u.id)
                    IN IF Mismatches(u, m) = {}
                       THEN entries = {}
                       ELSE /\ Cardinality(entries) = 1
                            /\ \A e \in entries :
                                  /\ DOMAIN updated[e] = Mismatches(u, m) \cup {"id"}
                                  /\ \A f \in Mismatches(u, m) :
                                        updated[e][f] = LiveValue(m, f)

\* A User diff over a record whose roles only differ in order and
\* multiplicity and a record with two mismatching fields.
C12_Witness ==
    \E p \in Procs :
        /\ run[p].syncer = "user"
        /\ FreshDiff(run[p])
        /\ \E u \in db_users : \E k \in 1..Len(guild_members) :
              /\ guild_members[k].id = u.id
              /\ u.roles # guild_members[k].roles
              /\ Mismatches(u, guild_members[k]) = {}
        /\ \E u \in db_users : \E k \in 1..Len(guild_members) :
              /\ guild_members[k].id = u.id
              /\ Cardinality(Mismatches(u, guild_members[k])) = 2

\* C13: the report of a successful Role run lists created, updated and
\* deleted in that order, deleted with 0 when nothing was deleted; the report
\* of a successful User run lists created and updated only.
C13_ReportTerms ==
    \A p \in Procs :
        (run[p].content.some /\ run[p].content.val.outcome = "complete") =>
            LET results == run[p].content.val.results
                d == run[p].diff.val
            IN IF run[p].syncer = "role"
               THEN results = << [name |-> "created", len |-> Cardinality(d.created.val)],
                                 [name |-> "updated", len |-> Cardinality(d.updated.val)],
                                 [name |-> "deleted", len |-> Cardinality(d.deleted.val)] >>
               ELSE results = << [name |-> "created", len |-> Len(d.created.val)],
                                 [name |-> "updated", len |-> Len(d.updated.val)] >>

\* A successful Role run that created a role and deleted none.
C13_Witness ==
    \E p \in Procs :
        /\ run[p].syncer = "role"
        /\ run[p].pc = "done"
        /\ run[p].content.val.outcome = "complete"
        /\ run[p].diff.val.created.val # {}
        /\ run[p].diff.val.deleted.val = {}

StartText(name) == [outcome |-> "start", name |-> name]
\* C14: with a sink, a run sends one start message before its first backend
\* call and, on Succeeded or Failed, edits that message once with the final
\* text after its last call; without a sink it neither sends nor edits.
C14_SinkProtocol ==
    \A p \in Procs :
        LET r == run[p]
            start == [op |-> "send", text |-> StartText(r.syncer)]
        IN /\ (r.pc # "idle" /\ ~r.ctx) => r.sink = <<>>
           /\ (r.ctx /\ r.pc \in {"get_diff", "sync", "edit", "raised"}) => r.sink = <<start>>
           /\ (r.ctx /\ r.pc = "done") =>
                /\ r.content.val.outcome \in {"complete", "failed"}
                /\ r.sink = <<start, [op |-> "edit", text |-> r.content.val]>>
           /\ r.calls # <<>> => (r.ctx <=> r.sink # <<>>)

\* A run with a sink that failed on its second write call and has edited the
\* start message.
C14_Witness ==
    \E p \in Procs :
        /\ run[p].ctx
        /\ run[p].pc = "done"
        /\ run[p].content.val.outcome = "failed"
        /\ Len(run[p].calls) = 3
        /\ Len(run[p].sink) = 2

\* The positions of the calls of a run with a given verb.
CallsWith(r, verb) == { i \in 1..Len(r.calls) : r.calls[i].verb = verb }
Succeeded(r) == Returned(r) /\ r.content.val.outcome = "complete"

\* C17: the reads of a run precede its writes, and a run whose backend calls
\* all returned (with a response or with a backend error) ends as Succeeded
\* or Failed: no exception leaves it.
C17_Lifecycle ==
    \A p \in Procs :
        LET r == run[p]
        IN /\ \A i, j \in 1..Len(r.calls) :
                (i < j /\ IsWrite(r.calls[i])) => IsWrite(r.calls[j])
           /\ r.pc = "raised" =>
                \E i \in 1..Len(r.calls) : r.calls[i].outcome.type = "OtherError"

\* C18: a successful Role run has made one POST per created role, one PUT per
\* updated role, one DELETE per deleted role and no other write; a successful
\* User run has made one POST with all of created iff created is not empty,
\* and one PATCH with all of updated iff updated is not empty.
C18_WriteCallShape ==
    \A p \in Procs :
        Succeeded(run[p]) =>
            LET r == run[p]
                d == r.diff.val
            IN IF r.syncer = "role"
               THEN /\ \A role \in d.created.val :
                         Cardinality({ i \in CallsWith(r, "POST") : r.calls[i].arg = role }) = 1
                    /\ \A role \in d.updated.val :
                         Cardinality({ i \in CallsWith(r, "PUT") :
                                          r.calls[i].arg = role /\ r.calls[i].url[2] = role.id }) = 1
                    /\ \A role \in d.deleted.val :
                         Cardinality({ i \in CallsWith(r, "DELETE") :
                                          r.calls[i].url[2] = role.id }) = 1
                    /\ Cardinality(CallsWith(r, "POST")) = Cardinality(d.created.val)
                    /\ Cardinality(CallsWith(r, "PUT")) = Cardinality(d.updated.val)
                    /\ Cardinality(CallsWith(r, "DELETE")) = Cardinality(d.deleted.val)
                    /\ CallsWith(r, "PATCH") = {}
                    /\ r.calls[1].response.val = PackGuildRoles(guild_roles) =>
                         \A i \in 1..Len(r.calls) : ~IsWrite(r.calls[i])
               ELSE /\ Cardinality(CallsWith(r, "POST")) = (IF d.created.val # <<>> THEN 1 ELSE 0)
                    /\ Cardinality(CallsWith(r, "PATCH")) = (IF d.updated.val # <<>> THEN 1 ELSE 0)
                    /\ \A i \in CallsWith(r, "POST") : r.calls[i].arg = d.created.val
                    /\ \A i \in CallsWith(r, "PATCH") : r.calls[i].arg = d.updated.val
                    /\ CallsWith(r, "PUT") = {} /\ CallsWith(r, "DELETE") = {}

\* A successful Role run that updated two roles.
C18_Witness ==
    \E p \in Procs :
        /\ run[p].syncer = "role"
        /\ Succeeded(run[p])
        /\ Cardinality(run[p].diff.val.updated.val) = 2
        /\ Cardinality(CallsWith(run[p], "PUT")) = 2

\* C19: every DELETE call is made by a Role run for the id of a role the
\* backend returned and the guild does not have; a User run makes none.
C19_DeletionSafety ==
    \A p \in Procs : \A i \in CallsWith(run[p], "DELETE") :
        /\ run[p].syncer = "role"
        /\ \E b \in run[p].calls[1].response.val : b.id = run[p].calls[i].url[2]
        /\ \A g \in PackGuildRoles(guild_roles) : g.id # run[p].calls[i].url[2]

\* A Role run that deleted a role while a stale role of the guild was stored.
C19_Witness ==
    \E p \in Procs :
        /\ run[p].syncer = "role"
        /\ \E i \in CallsWith(run[p], "DELETE") : run[p].calls[i].outcome = Ok
        /\ run[p].diff.val.updated.val # {}

\* The place of a call in the order of a run: the reads, the creations, the
\* updates, the deletions.
Rank(call) ==
    IF call.verb = "GET" THEN 0
    ELSE IF call.verb = "POST" THEN 1
    ELSE IF call.verb \in {"PUT", "PATCH"} THEN 2
    ELSE 3

\* C20: the calls of a run are made one after the other, each after the one
\* before has returned, the creations before the updates before the
\* deletions; a call that failed is the last call of the run.
C20_SequentialAndOrdered ==
    \A p \in Procs :
        LET r == run[p]
        IN /\ \A i, j \in 1..Len(r.calls) : i < j => Rank(r.calls[i]) <= Rank(r.calls[j])
           /\ \A i \in 1..Len(r.calls) : r.calls[i].outcome # Ok => i = Len(r.calls)
           /\ \A i \in 1..Len(r.calls) :
                (IsWrite(r.calls[i]) /\ r.calls[i].outcome # Ok) =>
                    \A j \in 1..Len(r.calls) : Rank(r.calls[j]) <= Rank(r.calls[i])

\* A Role run that made its POST, then its PUT, which failed.
C20_Witness ==
    \E p \in Procs :
        LET r == run[p]
        IN /\ r.syncer = "role"
           /\ Len(r.calls) = 3
           /\ r.calls[2].verb = "POST"
           /\ r.calls[3].verb = "PUT"
           /\ r.calls[3].outcome # Ok
           /\ r.pc = "done"

\* Task q makes a backend call in this step.
CallBy(q) == Len(run'[q].calls) > Len(run[q].calls)

\* C15: between two backend calls of one run, no other run of the same kind
\* makes a backend call.
C15_NoInterleaving ==
    [][\A q \in Procs :
          (CallBy(q) /\ run[q].calls # <<>> /\ last_caller # q)
              => run[last_caller].syncer # run[q].syncer]_vars

\* What a syncer of a kind reads and writes outside its own task.
KindState(name) ==
    IF name = "role" THEN <<guild_roles, db_roles>>
    ELSE <<guild_members, db_users, page_size>>

\* C16: a step of a User run changes nothing a concurrent Role run reads or
\* writes (its task state, the guild's roles, the stored roles), and a step of
\* a Role run changes nothing a concurrent User run reads or writes; so the
\* calls and the outcome of each are those of the run alone.
C16_Independent ==
    [][\A p, q \in Procs :
          (run[p].syncer = "role" /\ run[q].syncer = "user") =>
              /\ run'[q] # run[q] =>
                    /\ run'[p] = run[p]
                    /\ KindState("role")' = KindState("role")
              /\ run'[p] # run[p] =>
                    /\ run'[q] = run[q]
                    /\ KindState("user")' = KindState("user")]_vars

\* A Role run has deleted role 2, which stored users hold, while a User run
\* is between its page fetch and its write call.
C16_Witness ==
    \E p, q \in Procs :
        /\ run[p].syncer = "role"
        /\ run[q].syncer = "user"
        /\ last_caller = p
        /\ \E i \in CallsWith(run[p], "DELETE") : run[p].calls[i].outcome = Ok
        /\ run[q].pc = "sync"
        /\ run[q].calls # <<>>
        /\ \E u \in db_users : 2 \in SeqToSet(u.roles)
        /\ ~NothingToDo(run[q])
====
